---- MODULE Spec2Model ----
(***************************************************************************)
(* The MySQL front end of dataux: frontends/mysqlfe/mysql_handler.go.      *)
(*                                                                         *)
(* One MySqlHandler per client connection, cloned by Open from a template  *)
(* handler that shares the server context.  Handle dispatches on the       *)
(* command byte; handleQuery drives the planner and the Job life cycle     *)
(* (Finalize, Run, Close) through a result writer chosen by statement      *)
(* kind.  The collaborators (planner, Job, writers, transport) are outside *)
(* the file: each of their calls is a step whose outcome is chosen here    *)
(* nondeterministically among return-ok, return-error and fault (panic).   *)
(*                                                                         *)
(* Strings that the code inspects (request payloads) are sequences of      *)
(* byte values; a request is the command byte followed by the payload.     *)
(***************************************************************************)
EXTENDS Integers, Sequences, FiniteSets, TLC

-----------------------------------------------------------------------------
(* Bounds of the model *)

\* session variables take values 0..MaxSessVal
MaxSessVal == 1
\* cap on the number of times one transport's Close is counted
MaxTransportClose == 2
\* longest argument list given to makeBindVars
MaxArgs == 10

-----------------------------------------------------------------------------
(* Protocol constants of the vendored mysql package, as used by the handler *)

\* another command without a case, the lowest command byte
COM_SLEEP == 0
COM_QUIT == 1
COM_INIT_DB == 2
COM_QUERY == 3
COM_FIELD_LIST == 4
COM_PING == 14
COM_STMT_PREPARE == 22
\* a command the switch of chooseCommand has no case for
COM_STMT_EXECUTE == 23
ER_UNKNOWN_ERROR == 1105
ER_WARN_DEPRECATED_SYNTAX == 1287

Commands ==
    {COM_QUIT, COM_INIT_DB, COM_QUERY, COM_FIELD_LIST, COM_PING,
     COM_STMT_PREPARE, COM_STMT_EXECUTE, COM_SLEEP}

-----------------------------------------------------------------------------
(* Byte strings *)

\* "Set ", "set", "db" as bytes
TxtSetUpper == <<83, 101, 116, 32>>
TxtSetNoSpace == <<115, 101, 116>>
TxtDb == <<100, 98>>
\* the literal "set " of the planning-error fallback
SetPrefix == <<115, 101, 116, 32>>

\* payloads a client sends after the command byte
Payloads == {TxtSetUpper, TxtSetNoSpace, TxtDb}

\* raw requests: the empty packet, or a command byte and a payload
Requests == {<< >>} \cup {<<cmd>> \o p : cmd \in Commands, p \in Payloads}

\* strings.ToLower on ASCII bytes
LowerByte(b) == IF b >= 65 /\ b <= 90 THEN b + 32 ELSE b
ToLower(s) == [i \in 1..Len(s) |-> LowerByte(s[i])]

\* strings.HasPrefix
HasPrefix(s, p) == Len(s) >= Len(p) /\ SubSeq(s, 1, Len(p)) = p

-----------------------------------------------------------------------------
(* Values *)

\* connections (transports of type *proxy.Conn) and a transport of another type
Conns == {"c1", "c2"}
NotAConn == "other"
NilConn == "nil"

\* handler identities: the template built by NewMySqlHandler and one per connection
Template == "tmpl"
HandlerIds == {Template} \cup Conns

\* schema pointers: nil or the schema registered under a name
NilSchema == [isNil |-> TRUE, Name |-> << >>]
SchemaOf(db) == [isNil |-> FALSE, Name |-> db]
\* names registered in the server context
SchemaNames == {TxtDb, TxtSetNoSpace}

\* session objects are numbered from 1; 0 is the nil session
NilSess == 0

\* error values and escaped faults, one record shape for all
NoErr == [kind |-> "nil", code |-> 0, text |-> "", cmd |-> 0, str |-> << >>, arg |-> ""]
Errorf(text, str, arg) ==
    [kind |-> "error", code |-> 0, text |-> text, cmd |-> 0, str |-> str, arg |-> arg]
NewError(code, text, cmd) ==
    [kind |-> "mysqlerror", code |-> code, text |-> text, cmd |-> cmd, str |-> << >>, arg |-> ""]
Panic(fault) ==
    [kind |-> "panic", code |-> 0, text |-> "", cmd |-> 0, str |-> << >>, arg |-> fault]
\* the value of ret while a call has not returned
NoRet == [kind |-> "none", code |-> 0, text |-> "", cmd |-> 0, str |-> << >>, arg |-> ""]

\* errors returned by the collaborators
PlanErr == Errorf("planner error", << >>, "")
FinalizeErr == Errorf("finalize error", << >>, "")
RunErr == Errorf("run error", << >>, "")
WriteErr == Errorf("write error", << >>, "")
ConnCloseErr == Errorf("close error", << >>, "")

\* statement kinds the planner can put in job.Ctx.Stmt
StmtKinds ==
    {"SqlSelect", "SqlShow", "SqlDescribe", "SqlInsert", "SqlUpsert",
     "SqlUpdate", "SqlDelete", "SqlCommand", "SqlCreate"}

\* outcomes of BuildMySqlJob: an error, a fault, (nil, nil), or a job
PlanOutcomes ==
    {[kind |-> k, Stmt |-> ""] : k \in {"err", "panic", "nil"}}
        \cup {[kind |-> "job", Stmt |-> s] : s \in StmtKinds}

NilJob == [isNil |-> TRUE, Stmt |-> ""]
NilCtx == [Raw |-> << >>, DisableRecover |-> FALSE, Session |-> NilSess, Schema |-> NilSchema]

-----------------------------------------------------------------------------
VARIABLES
    svr,        \* the shared server context: schema registry and Config
    handlers,   \* HandlerIds -> MySqlHandler fields (sess, conn, schema)
    sessVars,   \* heap of session-variable objects: sequence, object id -> value
    connClosed, \* per transport, how many times its Close was invoked
    call,       \* the handler call in progress or just returned
    bind        \* a call of makeBindVars: its argument list and its result

vars == <<svr, handlers, sessVars, connClosed, call, bind>>

\* values an argument of makeBindVars can have
ArgValues == {10, 20}

\* the empty map
EmptyMap == [k \in {} |-> 0]

\* makeBindVars is not being called
NoBind == [pc |-> "none", given |-> << >>, args |-> << >>, bindVars |-> EmptyMap]

\* no call in progress: the connection loop is about to read a packet
IdleCall ==
    [pc |-> "idle", h |-> "none", op |-> "none", req |-> << >>, sql |-> << >>,
     ctx |-> NilCtx, job |-> NilJob, err |-> NoErr, resultWriter |-> "",
     connI |-> "", log |-> << >>, val |-> NilSchema, ret |-> NoRet]

\* a MySqlHandler that does not exist yet
NoHandler == [open |-> FALSE, sess |-> NilSess, conn |-> NilConn, schema |-> NilSchema]

\* NewMySqlHandler: the template handler has only the shared part set
NewMySqlHandler == [open |-> TRUE, sess |-> NilSess, conn |-> NilConn, schema |-> NilSchema]

Init ==
    /\ svr \in {[schemas |-> SchemaNames, Config |-> [SupressRecover |-> b]] : b \in BOOLEAN}
    /\ handlers = [h \in HandlerIds |-> IF h = Template THEN NewMySqlHandler ELSE NoHandler]
    /\ sessVars = << >>
    /\ connClosed = [c \in Conns |-> 0]
    /\ call = IdleCall
    /\ bind = NoBind

-----------------------------------------------------------------------------
(* Helpers of the call frame *)

\* a return statement: the call is over with value v
Return(c, v) == [c EXCEPT !.pc = "returned", !.ret = v]

\* a call to a collaborator, recorded in the order made
Logged(c, name, arg, out) ==
    [c EXCEPT !.log = Append(@, [call |-> name, arg |-> arg, out |-> out])]

\* a fault raised inside handleQuery: caught by the deferred recover unless
\* Config.SupressRecover; the message is formatted from the CURRENT value
\* of the variable sql
Recover(cfg, c, e) ==
    IF ~cfg.SupressRecover
    THEN Return(c, Errorf("handle query %s error %v", c.sql, e))
    ELSE Return(c, Panic(e))

\* svr.Schema(db): registry lookup
Schema(s, db) == IF db \in s.schemas THEN SchemaOf(db) ELSE NilSchema

-----------------------------------------------------------------------------
(* MySqlHandler.Open, Close, SchemaUse, writeOK *)

\* Open: a new handler sharing m's MySqlHandlerShared, with the session
\* object sess (the result of NewMySqlSessionVars), bound to connI when connI
\* is a *proxy.Conn; any other transport type ends in panic(...)
Open(m, connI, sess) ==
    LET handler == [open |-> TRUE, sess |-> sess, conn |-> NilConn, schema |-> NilSchema]
    IN  IF connI \in Conns
        THEN [panics |-> FALSE, handler |-> [handler EXCEPT !.conn = connI]]
        ELSE [panics |-> TRUE, handler |-> NoHandler]

\* NewMySqlSessionVars(): a fresh session object, the next free id of the heap
NewMySqlSessionVars(heap) == Len(heap) + 1

\* the value an outcome of a collaborator's call stands for
ErrOf(out, e) == IF out = "ok" THEN NoErr ELSE e

\* Close that closes the transport but leaves m.conn set
Close_KeepsConn(m, out) ==
    IF m.conn # NilConn
    THEN [m |-> m, closes |-> TRUE, err |-> ErrOf(out, ConnCloseErr)]
    ELSE [m |-> m, closes |-> FALSE, err |-> NoErr]

\* Close: release the transport if there is one; out is what conn.Close() returns
Close(m, out) ==
    IF m.conn # NilConn
    THEN [m |-> [m EXCEPT !.conn = NilConn], closes |-> TRUE, err |-> ErrOf(out, ConnCloseErr)]
    ELSE [m |-> m, closes |-> FALSE, err |-> NoErr]

\* SchemaUse that assigns m.schema before testing the lookup's result
SchemaUse_AssignBeforeCheck(hs, s, h, db) ==
    LET schema == Schema(s, db)
    IN  [handlers |-> [hs EXCEPT ![h].schema = schema], ret |-> schema]

\* SchemaUse that keeps the selected schema on the part all handlers share
SchemaUse_OnShared(hs, s, h, db) ==
    LET schema == Schema(s, db)
    IN  IF schema = NilSchema
        THEN [handlers |-> hs, ret |-> NilSchema]
        ELSE [handlers |-> [g \in DOMAIN hs |-> [hs[g] EXCEPT !.schema = schema]],
              ret |-> schema]

\* SchemaUse on handler h of hs: look db up in the registry of s, select it if found
SchemaUse(hs, s, h, db) ==
    LET schema == Schema(s, db)
    IN  IF schema = NilSchema
        THEN [handlers |-> hs, ret |-> NilSchema]
        ELSE [handlers |-> [hs EXCEPT ![h].schema = schema], ret |-> schema]

\* conn.WriteOK(nil): on a nil *proxy.Conn the call dereferences nil and
\* faults; on a bound one it returns out
ConnWriteOK(conn, out) == IF conn = NilConn THEN "panic" ELSE out

NilDeref == "invalid memory address or nil pointer dereference"

\* writeOK as called from chooseCommand, where no recover is in place
writeOK(m, c, out) ==
    LET o == ConnWriteOK(m.conn, out)
        c1 == Logged(c, "WriteOK", m.conn, o)
    IN  IF o = "panic" THEN Return(c1, Panic(NilDeref)) ELSE Return(c1, ErrOf(o, WriteErr))

\* the frame of a call of operation op on handler h with argument req
Enter(h, op, req) == [IdleCall EXCEPT !.pc = "running", !.h = h, !.op = op, !.req = req]

-----------------------------------------------------------------------------
(* handleQuery, up to the call of the planner *)

\* the guard testing the session instead of the schema
NoSchemaInUse_TestsSession(m) == m.sess = NilSess

\* m.schema == nil
NoSchemaInUse(m) == m.schema = NilSchema

\* the context built without the assignment ctx.Schema = m.schema
NewContext_OmitsSchema(cfg, m, sql) ==
    [Raw |-> sql, DisableRecover |-> cfg.SupressRecover, Session |-> m.sess, Schema |-> NilSchema]

\* plan.NewContext(sql) and the three assignments to ctx
NewContext(cfg, m, sql) ==
    [Raw |-> sql, DisableRecover |-> cfg.SupressRecover, Session |-> m.sess, Schema |-> m.schema]

handleQuery(cfg, m, c, sql) ==
    LET c1 == [c EXCEPT !.sql = sql]
    IN  IF NoSchemaInUse(m)
        THEN Return(c1, Errorf("no schema in use", << >>, ""))
        ELSE [c1 EXCEPT !.pc = "BuildMySqlJob", !.ctx = NewContext(cfg, m, sql)]

-----------------------------------------------------------------------------
(* Calls on a handler: actions *)

OpenCall(connI) ==
    /\ call.pc = "idle"
    /\ connI \in Conns => ~handlers[connI].open
    /\ LET c0 == [Enter(Template, "Open", << >>) EXCEPT !.connI = connI]
           r == Open(handlers[Template], connI, NewMySqlSessionVars(sessVars))
       IN  IF r.panics
           THEN /\ call' = Return(c0, Panic("not proxy.Conn? %T"))
                /\ UNCHANGED <<handlers, sessVars>>
           ELSE /\ handlers' = [handlers EXCEPT ![connI] = r.handler]
                /\ sessVars' = Append(sessVars, 0)
                /\ call' = Return([c0 EXCEPT !.h = connI], NoErr)
    /\ UNCHANGED <<bind, svr, connClosed>>

\* the effect of m.Close() on the handler table and the transport
DoClose(h, out) ==
    LET m == handlers[h]
        r == Close(m, out)
    IN  /\ m.conn # NilConn => connClosed[m.conn] < MaxTransportClose
        /\ handlers' = [handlers EXCEPT ![h] = r.m]
        /\ connClosed' = IF r.closes
                         THEN [connClosed EXCEPT ![m.conn] = @ + 1]
                         ELSE connClosed

CloseCall(h) ==
    /\ call.pc = "idle"
    /\ h \in Conns /\ handlers[h].open
    /\ \E out \in {"ok", "err"} :
          LET m == handlers[h]
              r == Close(m, out)
              c0 == Enter(h, "Close", << >>)
              c1 == IF r.closes THEN Logged(c0, "conn.Close", m.conn, out) ELSE c0
          IN  /\ DoClose(h, out)
              /\ call' = Return(c1, r.err)
    /\ UNCHANGED <<bind, svr, sessVars>>

SchemaUseCall(h, db) ==
    /\ call.pc = "idle"
    /\ h \in Conns /\ handlers[h].open
    /\ LET r == SchemaUse(handlers, svr, h, db)
           c0 == Enter(h, "SchemaUse", db)
       IN  /\ handlers' = r.handlers
           /\ call' = Return([c0 EXCEPT !.val = r.ret], NoErr)
    /\ UNCHANGED <<bind, svr, sessVars, connClosed>>

\* case mysql.COM_QUERY, mysql.COM_STMT_PREPARE
IsQueryCommand(cmd) == cmd \in {COM_QUERY, COM_STMT_PREPARE}

\* the deprecated-command error built with the generic code
DeprecatedError_GenericCode(cmd) ==
    NewError(ER_UNKNOWN_ERROR, "command %d:%s is deprecated", cmd)

\* the error of case mysql.COM_FIELD_LIST
DeprecatedError(cmd) ==
    NewError(ER_WARN_DEPRECATED_SYNTAX, "command %d:%s is deprecated", cmd)

\* the default case's error formatted without the command byte
UnsupportedError_NoCommand(cmd) ==
    NewError(ER_UNKNOWN_ERROR, "command not yet supported", 0)

\* the error of the default case
UnsupportedError(cmd) ==
    NewError(ER_UNKNOWN_ERROR, "command %d:%s not yet supported", cmd)

\* chooseCommand: the switch on the command byte; Raw is the request
\* without that byte
chooseCommand(h, c, cmd, Raw) ==
    LET m == handlers[h]
    IN  CASE cmd = COM_FIELD_LIST ->
               /\ call' = Return(c, DeprecatedError(cmd))
               /\ UNCHANGED <<handlers, connClosed>>
          [] IsQueryCommand(cmd) ->
               /\ call' = handleQuery(svr.Config, m, c, Raw)
               /\ UNCHANGED <<handlers, connClosed>>
          [] cmd = COM_PING ->
               /\ \E out \in {"ok", "err"} : call' = writeOK(m, c, out)
               /\ UNCHANGED <<handlers, connClosed>>
          [] cmd = COM_QUIT ->
               \E out \in {"ok", "err"} :
                  LET r == Close(m, out)
                      c1 == IF r.closes THEN Logged(c, "conn.Close", m.conn, out) ELSE c
                  IN  /\ DoClose(h, out)
                      /\ call' = Return(c1, NoErr)
          [] cmd = COM_INIT_DB ->
               LET r == SchemaUse(handlers, svr, h, Raw)
                   c1 == [c EXCEPT !.val = r.ret]
               IN  /\ handlers' = r.handlers
                   /\ IF r.ret = NilSchema
                      THEN call' = Return(c1, Errorf("Schema not found %s", Raw, ""))
                      ELSE \E out \in {"ok", "err"} : call' = writeOK(r.handlers[h], c1, out)
                   /\ UNCHANGED connClosed
          [] OTHER ->
               /\ call' = Return(c, UnsupportedError(cmd))
               /\ UNCHANGED <<handlers, connClosed>>

\* Handle: req.Raw[0] is the command; indexing an empty packet faults
Handle(h, req) ==
    /\ call.pc = "idle"
    /\ h \in Conns /\ handlers[h].open
    /\ LET c0 == Enter(h, "Handle", req)
       IN  IF Len(req) = 0
           THEN /\ call' = Return(c0, Panic("index out of range"))
                /\ UNCHANGED <<handlers, connClosed>>
           ELSE chooseCommand(h, c0, Head(req), Tail(req))
    /\ UNCHANGED <<bind, svr, sessVars>>

-----------------------------------------------------------------------------
(* handleQuery, from the planner's answer on *)

\* the fallback test without the lowercasing
IsSetStmt_CaseSensitive(sql) == HasPrefix(sql, SetPrefix)

\* the test of the fallback: strings.HasPrefix(sql, "set ") on the lowercased sql
IsSetStmt(sql) == HasPrefix(ToLower(sql), SetPrefix)

\* err != nil after BuildMySqlJob: sql is overwritten by its lowercase form,
\* then either the OK reply of the "set " fallback or the planner's error
planFailed(c, err) ==
    LET c1 == [c EXCEPT !.sql = ToLower(c.sql), !.err = err]
    IN  IF IsSetStmt(c.sql) THEN [c1 EXCEPT !.pc = "WriteOK"] ELSE Return(c1, err)

\* the type switch with SqlShow listed in the case of SqlSelect
WriterFor_ShowAsSelect(stmt) ==
    CASE stmt \in {"SqlSelect", "SqlShow"} -> "NewMySqlResultWriter"
      [] stmt = "SqlDescribe" -> "NewMySqlSchemaWriter"
      [] stmt \in {"SqlInsert", "SqlUpsert", "SqlUpdate", "SqlDelete"} -> "NewMySqlExecResultWriter"
      [] OTHER -> ""

\* the constructor the type switch on job.Ctx.Stmt calls, "" where it calls none
WriterFor(stmt) ==
    CASE stmt = "SqlSelect" -> "NewMySqlResultWriter"
      [] stmt \in {"SqlShow", "SqlDescribe"} -> "NewMySqlSchemaWriter"
      [] stmt \in {"SqlInsert", "SqlUpsert", "SqlUpdate", "SqlDelete"} -> "NewMySqlExecResultWriter"
      [] OTHER -> ""

\* the type switch: a writer constructor, the immediate OK of SqlCommand,
\* or the error of the default case
selectWriter(c, stmt) ==
    CASE WriterFor(stmt) # "" -> [c EXCEPT !.pc = "NewWriter"]
      [] stmt = "SqlCommand" -> [c EXCEPT !.pc = "WriteOK"]
      [] OTHER -> Return(c, Errorf("statement type %T not supported", << >>, stmt))

\* a nil job acknowledged with an OK reply, like a SqlCommand
afterBuild_NilJobWritesOK(cfg, c, out) ==
    CASE out.kind = "panic" -> Recover(cfg, c, "fault in BuildMySqlJob")
      [] out.kind = "err" -> planFailed(c, PlanErr)
      [] out.kind = "nil" -> [c EXCEPT !.pc = "WriteOK"]
      [] OTHER -> selectWriter([c EXCEPT !.job = [isNil |-> FALSE, Stmt |-> out.Stmt]], out.Stmt)

\* what handleQuery does with the answer of BuildMySqlJob
afterBuild(cfg, c, out) ==
    CASE out.kind = "panic" -> Recover(cfg, c, "fault in BuildMySqlJob")
      [] out.kind = "err" -> planFailed(c, PlanErr)
      [] out.kind = "nil" -> Return(c, NoErr)
      [] OTHER -> selectWriter([c EXCEPT !.job = [isNil |-> FALSE, Stmt |-> out.Stmt]], out.Stmt)

\* Finalize's error raised with panic(err) instead of being returned
afterFinalize_PanicsOnError(cfg, c, out) ==
    CASE out \in {"panic", "err"} -> Recover(cfg, c, "fault in Finalize")
      [] OTHER -> [c EXCEPT !.err = NoErr, !.pc = "Run"]

\* Finalize's error only logged, as Run's is, and the job run all the same
afterFinalize_IgnoresError(cfg, c, out) ==
    CASE out = "panic" -> Recover(cfg, c, "fault in Finalize")
      [] OTHER -> [c EXCEPT !.err = ErrOf(out, FinalizeErr), !.pc = "Run"]

\* err = job.Finalize(resultWriter); if err != nil { return err }
afterFinalize(cfg, c, out) ==
    CASE out = "panic" -> Recover(cfg, c, "fault in Finalize")
      [] out = "err" -> Return([c EXCEPT !.err = FinalizeErr], FinalizeErr)
      [] OTHER -> [c EXCEPT !.err = NoErr, !.pc = "Run"]

\* Run's error returned at once, as Finalize's is, skipping job.Close()
afterRun_ReturnsOnError(cfg, c, out) ==
    CASE out = "panic" -> Recover(cfg, c, "fault in Run")
      [] out = "err" -> Return([c EXCEPT !.err = RunErr], RunErr)
      [] OTHER -> [c EXCEPT !.err = NoErr, !.pc = "Close"]

\* err = job.Run(); the error is logged and kept, job.Close() comes next
afterRun(cfg, c, out) ==
    CASE out = "panic" -> Recover(cfg, c, "fault in Run")
      [] OTHER -> [c EXCEPT !.err = ErrOf(out, RunErr), !.pc = "Close"]

\* job.Close(): its result is dropped; return err
afterClose(cfg, c, out) ==
    CASE out = "panic" -> Recover(cfg, c, "fault in Close")
      [] OTHER -> Return(c, c.err)

\* return m.conn.WriteOK(nil) inside handleQuery
afterWriteOK(cfg, c, o) ==
    IF o = "panic" THEN Recover(cfg, c, NilDeref) ELSE Return(c, ErrOf(o, WriteErr))

-----------------------------------------------------------------------------
(* The steps of a query in progress: one per call to a collaborator *)

\* BuildMySqlJob(m.svr, ctx): the planner answers, and may assign the
\* session variables of ctx.Session
BuildMySqlJob ==
    /\ call.pc = "BuildMySqlJob"
    /\ \E out \in PlanOutcomes, v \in -1..MaxSessVal :
          /\ sessVars' = IF v = -1 THEN sessVars
                         ELSE [sessVars EXCEPT ![call.ctx.Session] = v]
          /\ call' = afterBuild(svr.Config, Logged(call, "BuildMySqlJob", "", out.kind), out)
    /\ UNCHANGED <<bind, svr, handlers, connClosed>>

NewWriter ==
    /\ call.pc = "NewWriter"
    /\ \E out \in {"ok", "panic"} :
          LET ctor == WriterFor(call.job.Stmt)
              c1 == Logged(call, ctor, "", out)
          IN  call' = IF out = "panic"
                      THEN Recover(svr.Config, c1, "fault in writer constructor")
                      ELSE [c1 EXCEPT !.resultWriter = ctor, !.pc = "Finalize"]
    /\ UNCHANGED <<bind, svr, handlers, sessVars, connClosed>>

Finalize ==
    /\ call.pc = "Finalize"
    /\ \E out \in {"ok", "err", "panic"} :
          call' = afterFinalize(svr.Config, Logged(call, "Finalize", call.resultWriter, out), out)
    /\ UNCHANGED <<bind, svr, handlers, sessVars, connClosed>>

Run ==
    /\ call.pc = "Run"
    /\ \E out \in {"ok", "err", "panic"} :
          call' = afterRun(svr.Config, Logged(call, "Run", "", out), out)
    /\ UNCHANGED <<bind, svr, handlers, sessVars, connClosed>>

JobClose ==
    /\ call.pc = "Close"
    /\ \E out \in {"ok", "err", "panic"} :
          call' = afterClose(svr.Config, Logged(call, "Close", "", out), out)
    /\ UNCHANGED <<bind, svr, handlers, sessVars, connClosed>>

WriteOK ==
    /\ call.pc = "WriteOK"
    /\ \E out \in {"ok", "err"} :
          LET conn == handlers[call.h].conn
              o == ConnWriteOK(conn, out)
          IN  call' = afterWriteOK(svr.Config, Logged(call, "WriteOK", conn, o), o)
    /\ UNCHANGED <<bind, svr, handlers, sessVars, connClosed>>

\* the caller takes the returned value and goes on to its next call
LoopNext ==
    /\ call.pc = "returned"
    /\ call' = IdleCall
    /\ UNCHANGED <<bind, svr, handlers, sessVars, connClosed>>

Next ==
    \/ \E connI \in Conns \cup {NotAConn} : OpenCall(connI)
    \/ \E h \in Conns : CloseCall(h)
    \/ \E h \in Conns, db \in Payloads : SchemaUseCall(h, db)
    \/ \E h \in Conns, req \in Requests : Handle(h, req)
    \/ BuildMySqlJob
    \/ NewWriter
    \/ Finalize
    \/ Run
    \/ JobClose
    \/ WriteOK
    \/ LoopNext

Spec == Init /\ [][Next]_vars

-----------------------------------------------------------------------------
(* makeBindVars *)

\* the decimal digits of n, as bytes: what %d prints
RECURSIVE Itoa(_)
Itoa(n) == IF n < 10 THEN <<48 + n>> ELSE Itoa(n \div 10) \o <<48 + (n % 10)>>

\* fmt.Sprintf("v%d", n)
SprintfV(n) == <<118>> \o Itoa(n)

\* bindVars[k] = v
MapSet(m, k, v) == [x \in DOMAIN m \cup {k} |-> IF x = k THEN v ELSE m[x]]

\* the loop numbering its keys from the index i itself: v0, v1, ...
RECURSIVE bindLoop_ZeroBased(_, _, _)
bindLoop_ZeroBased(args, p, bindVars) ==
    IF p > Len(args) THEN bindVars
    ELSE bindLoop_ZeroBased(args, p + 1, MapSet(bindVars, SprintfV(p - 1), args[p]))

\* for i, v := range args { bindVars["v"+(i+1)] = v }, from position p on;
\* position p of the sequence is index i = p - 1 of the slice
RECURSIVE bindLoop(_, _, _)
bindLoop(args, p, bindVars) ==
    IF p > Len(args) THEN bindVars
    ELSE bindLoop(args, p + 1, MapSet(bindVars, SprintfV((p - 1) + 1), args[p]))

makeBindVars(args) == bindLoop(args, 1, EmptyMap)

\* argument lists of up to MaxArgs values
ArgLists == UNION {[1..n -> ArgValues] : n \in 0..MaxArgs}

\* makeBindVars(args) runs to its return; it assigns nothing but its own map
MakeBindVarsCall ==
    /\ bind.pc = "called"
    /\ bind' = [bind EXCEPT !.pc = "returned", !.bindVars = makeBindVars(bind.args)]
    /\ UNCHANGED <<svr, handlers, sessVars, connClosed, call>>

\* a caller that has built an argument list and calls makeBindVars with it
InitBind ==
    /\ svr = [schemas |-> SchemaNames, Config |-> [SupressRecover |-> FALSE]]
    /\ handlers = [h \in HandlerIds |-> IF h = Template THEN NewMySqlHandler ELSE NoHandler]
    /\ sessVars = << >>
    /\ connClosed = [c \in Conns |-> 0]
    /\ call = IdleCall
    /\ bind \in {[pc |-> "called", given |-> a, args |-> a, bindVars |-> EmptyMap] : a \in ArgLists}

NextBind == MakeBindVarsCall

SpecBind == InitBind /\ [][NextBind]_vars

-----------------------------------------------------------------------------
(* Vocabulary of the properties *)

\* the call has returned to its caller (by a return or by an escaped fault)
Returned == call.pc = "returned"

\* the call is Handle of a request with command byte cmd
IsCommand(c, cmd) == c.op = "Handle" /\ Len(c.req) > 0 /\ c.req[1] = cmd

\* the call is Handle of a query or prepare command
IsQuery(c) == IsCommand(c, COM_QUERY) \/ IsCommand(c, COM_STMT_PREPARE)

\* the request without its command byte: the SQL text or schema name sent
SentText(c) == SubSeq(c.req, 2, Len(c.req))

\* positions of the log of c where collaborator call name was made
CallsAt(c, name) == {i \in 1..Len(c.log) : c.log[i].call = name}
NumCalls(c, name) == Cardinality(CallsAt(c, name))

\* the planner was called and answered with outcome kind
Planned(c, kind) ==
    Len(c.log) >= 1 /\ c.log[1].call = "BuildMySqlJob" /\ c.log[1].out = kind

\* s begins with "set " in any mix of upper and lower case
StartsWithSetAnyCase(s) ==
    /\ Len(s) >= 4
    /\ s[1] \in {83, 115}
    /\ s[2] \in {69, 101}
    /\ s[3] \in {84, 116}
    /\ s[4] = 32

-----------------------------------------------------------------------------
\* C1: for every query whose planner call returned a non-nil Job, Job.Close
\* has been invoked exactly once when handleQuery returns, whatever the
\* outcome of Finalize and Run and whatever the statement kind.
C1_JobClosedExactlyOnce ==
    (Returned /\ IsQuery(call) /\ ~call.job.isNil) => NumCalls(call, "Close") = 1

\* C2: on a handler whose schema was never set, a query or prepare command
\* returns "no schema in use" (not the text of "Schema not found"), without
\* calling the planner or any other collaborator and without writing to the
\* transport, whatever the SQL text.
C2_NoSchemaInUse ==
    (IsQuery(call) /\ handlers[call.h].schema = NilSchema) =>
        /\ Returned
        /\ call.ret.kind = "error"
        /\ call.ret.text = "no schema in use"
        /\ call.ret.text # "Schema not found %s"
        /\ call.log = << >>

C2_Witness ==
    /\ Returned /\ IsCommand(call, COM_STMT_PREPARE)
    /\ handlers[call.h].schema = NilSchema
    /\ SentText(call) = TxtSetUpper
    /\ call.ret.text = "no schema in use"

\* C3: an init-db command or SchemaUse call naming a schema that is not in
\* the registry gets a nil result from SchemaUse, changes no handler (the
\* active schema stays nil or stays the one selected before), writes no OK,
\* and for init-db returns the error "Schema not found <name>".
C3_UnknownSchema ==
    [][ (/\ call.pc = "idle" /\ call'.pc = "returned"
         /\ \/ IsCommand(call', COM_INIT_DB) /\ SentText(call') \notin svr.schemas
            \/ call'.op = "SchemaUse" /\ call'.req \notin svr.schemas)
        => /\ call'.val = NilSchema
           /\ handlers' = handlers
           /\ NumCalls(call', "WriteOK") = 0
           /\ call'.op = "Handle" =>
                 call'.ret = Errorf("Schema not found %s", SentText(call'), "") ]_vars

C3_Witness ==
    /\ Returned /\ IsCommand(call, COM_INIT_DB)
    /\ SentText(call) \notin svr.schemas
    /\ handlers[call.h].schema = SchemaOf(TxtDb)
    /\ call.ret.text = "Schema not found %s"

\* C4: with an active schema, when the planner returns an error: if the SQL
\* text starts with "set " in any letter case the handler makes exactly one
\* OK write and returns the result of that write, not the planner's error;
\* otherwise it writes nothing and returns the planner's error itself.  No
\* Finalize, Run or Close is invoked in either case.
C4_PlanErrorFallback ==
    (IsQuery(call) /\ Planned(call, "err")) =>
        /\ NumCalls(call, "Finalize") = 0
        /\ NumCalls(call, "Run") = 0
        /\ NumCalls(call, "Close") = 0
        /\ Returned =>
              IF StartsWithSetAnyCase(SentText(call))
              THEN /\ Len(call.log) = 2
                   /\ call.log[2].call = "WriteOK"
                   /\ call.ret # PlanErr
                   /\ call.log[2].out = "ok" => call.ret = NoErr
                   /\ call.log[2].out = "err" => call.ret = WriteErr
              ELSE /\ Len(call.log) = 1
                   /\ call.ret = PlanErr

C4_Witness ==
    /\ Returned /\ IsQuery(call) /\ Planned(call, "err")
    /\ SentText(call) = TxtSetUpper
    /\ Len(call.log) = 2 /\ call.log[2].call = "WriteOK" /\ call.log[2].out = "ok"
    /\ call.ret = NoErr

\* C5: with Config.SupressRecover false, a fault raised by any collaborator
\* during a query does not escape handleQuery, which returns an error made of
\* the original SQL text of the query and the fault description; with
\* SupressRecover true the fault escapes Handle.
C5_RecoveredFaultCarriesSql ==
    (Returned /\ IsQuery(call) /\ \E i \in 1..Len(call.log) : call.log[i].out = "panic") =>
        IF ~svr.Config.SupressRecover
        THEN /\ call.ret.kind = "error"
             /\ call.ret.text = "handle query %s error %v"
             /\ call.ret.str = SentText(call)
             /\ call.ret.arg # ""
        ELSE call.ret.kind = "panic"

\* C6: Open with a transport that is not a *proxy.Conn returns a typed error
\* to its caller: no fault leaves Open, and no handler is produced.
C6_OpenReturnsTypedError ==
    (Returned /\ call.op = "Open" /\ call.connI \notin Conns) =>
        /\ call.ret.kind = "error"
        /\ \A h \in Conns : handlers[h].conn # call.connI

\* C7: over any sequence of Close calls and quit commands on a handler the
\* transport's Close is invoked at most once, and exactly once as soon as a
\* Close or quit has happened: the Close or quit that finds the transport
\* bound closes it once and unbinds it, Close returning the transport's close
\* result; one that finds it unbound touches nothing and Close returns nil.
C7_TransportClosedOnce ==
    /\ [](\A c \in Conns :
            /\ connClosed[c] <= 1
            /\ connClosed[c] = 1 <=> (handlers[c].open /\ handlers[c].conn = NilConn))
    /\ [][ (/\ call.pc = "idle" /\ call'.pc = "returned"
            /\ call'.op = "Close" \/ IsCommand(call', COM_QUIT))
           => LET h == call'.h
              IN  /\ handlers'[h].conn = NilConn
                  /\ connClosed'[h] = 1
                  /\ IF handlers[h].conn # NilConn
                     THEN /\ connClosed[h] = 0
                          /\ NumCalls(call', "conn.Close") = 1
                          /\ call'.op = "Close" =>
                                call'.ret = ErrOf(call'.log[1].out, ConnCloseErr)
                     ELSE /\ connClosed' = connClosed
                          /\ call'.log = << >>
                          /\ call'.ret = NoErr ]_vars

\* a Close that found the transport already released by an earlier quit or Close
C7_Witness ==
    /\ Returned /\ call.op = "Close"
    /\ call.log = << >> /\ call.ret = NoErr
    /\ connClosed[call.h] = 1

\* the handler a step acts on: the one being called, or the one whose call is in progress
Acting == IF call.pc = "idle" THEN call'.h ELSE call.h

\* C8: a step of a call on one handler changes neither the fields nor the
\* session variables of any other handler (the template included) nor the
\* server context; handlers never share a session object; and Open yields a
\* handler with no active schema and a session object none had before.
C8_ConnectionIsolation ==
    /\ [](\A g, h \in Conns :
             (g # h /\ handlers[g].open /\ handlers[h].open)
                => handlers[g].sess # handlers[h].sess)
    /\ [][ /\ svr' = svr
           /\ \A g \in HandlerIds \ {Acting} :
                 /\ handlers'[g] = handlers[g]
                 /\ handlers[g].sess # NilSess =>
                       sessVars'[handlers[g].sess] = sessVars[handlers[g].sess]
           /\ (call.pc = "idle" /\ call'.op = "Open" /\ call'.ret = NoErr) =>
                 LET n == handlers'[call'.h]
                 IN  /\ n.schema = NilSchema
                     /\ n.conn = call'.connI
                     /\ \A g \in HandlerIds : handlers[g].sess # n.sess
                     /\ n.sess \notin DOMAIN sessVars
                     /\ sessVars'[n.sess] = 0 ]_vars

\* two connections that selected different schemas and hold different session values
C8_Witness ==
    /\ handlers["c1"].open /\ handlers["c2"].open
    /\ handlers["c1"].schema = SchemaOf(TxtDb)
    /\ handlers["c2"].schema = SchemaOf(TxtSetNoSpace)
    /\ sessVars[handlers["c1"].sess] # sessVars[handlers["c2"].sess]
    /\ call.pc = "BuildMySqlJob" /\ call.h = "c2"

\* the Run call of the log returned (with or without an error)
RunReturnedAt(i) == call.log[i].call = "Run" /\ call.log[i].out \in {"ok", "err"}

\* C9 as stated: whenever Run was invoked and returned, Close is invoked next
\* and handleQuery returns exactly Run's error (nil when Run succeeded).
C9_ReturnsRunError ==
    Returned =>
        \A i \in 1..Len(call.log) :
            RunReturnedAt(i) =>
                /\ Len(call.log) = i + 1
                /\ call.log[i + 1].call = "Close"
                /\ call.ret = ErrOf(call.log[i].out, RunErr)

\* C9 amended: whenever Run was invoked and returned, Close is invoked next,
\* exactly once; if Close returns, with or without an error, handleQuery
\* returns exactly Run's error (nil when Run succeeded); if Close faults,
\* handleQuery returns the recovered error, or the fault escapes when
\* SupressRecover is set.
C9_ReturnsRunErrorUnlessCloseFaults ==
    /\ \A i \in 1..Len(call.log) :
          RunReturnedAt(i) =>
             /\ call.pc = "Close" <=> Len(call.log) = i
             /\ call.err = ErrOf(call.log[i].out, RunErr)
    /\ Returned =>
          \A i \in 1..Len(call.log) :
              RunReturnedAt(i) =>
                 /\ Len(call.log) = i + 1
                 /\ call.log[i + 1].call = "Close"
                 /\ IF call.log[i + 1].out # "panic"
                    THEN call.ret = ErrOf(call.log[i].out, RunErr)
                    ELSE IF svr.Config.SupressRecover
                         THEN call.ret.kind = "panic"
                         ELSE call.ret.text = "handle query %s error %v"

\* Run returned an error, Close returned an error too: Run's error is returned
C9_Witness ==
    /\ Returned /\ Len(call.log) = 5
    /\ call.log[4].call = "Run" /\ call.log[4].out = "err"
    /\ call.log[5].call = "Close" /\ call.log[5].out = "err"
    /\ call.ret = RunErr

\* the writer constructor each statement kind is to get, "" for none
WriterOfKind(stmt) ==
    IF stmt = "SqlSelect" THEN "NewMySqlResultWriter"
    ELSE IF stmt = "SqlShow" \/ stmt = "SqlDescribe" THEN "NewMySqlSchemaWriter"
    ELSE IF stmt = "SqlInsert" \/ stmt = "SqlUpsert" \/ stmt = "SqlUpdate" \/ stmt = "SqlDelete"
         THEN "NewMySqlExecResultWriter"
    ELSE ""

\* C10: for a non-nil Job the path is chosen by statement kind alone: Select
\* constructs the row writer, Show/Describe the schema writer,
\* Insert/Upsert/Update/Delete the exec-result writer, and that writer is the
\* one passed to Finalize; SqlCommand gets one OK write and no writer,
\* Finalize or Run; any other kind returns "statement type ... not supported"
\* with nothing written and no Finalize or Run.
C10_WriterByStatementKind ==
    (IsQuery(call) /\ ~call.job.isNil) =>
        LET stmt == call.job.Stmt
            w == WriterOfKind(stmt)
            made == {i \in 1..Len(call.log) :
                        call.log[i].call \in {"NewMySqlResultWriter", "NewMySqlSchemaWriter",
                                              "NewMySqlExecResultWriter"}}
        IN  IF w # ""
            THEN /\ NumCalls(call, "WriteOK") = 0
                 /\ \A i \in made : i = 2 /\ call.log[i].call = w
                 /\ \A i \in CallsAt(call, "Finalize") :
                       i = 3 /\ call.log[i].arg = w /\ call.log[2].out = "ok"
                 /\ (Returned \/ Len(call.log) >= 2) => made = {2}
                 /\ (Returned /\ call.log[2].out = "ok") => NumCalls(call, "Finalize") = 1
            ELSE /\ made = {}
                 /\ NumCalls(call, "Finalize") = 0
                 /\ NumCalls(call, "Run") = 0
                 /\ IF stmt = "SqlCommand"
                    THEN /\ Returned => Len(call.log) = 2
                         /\ Len(call.log) >= 2 => call.log[2].call = "WriteOK"
                         /\ call.pc \in {"WriteOK", "returned"}
                    ELSE /\ Returned
                         /\ Len(call.log) = 1
                         /\ call.ret = Errorf("statement type %T not supported", << >>, stmt)

\* a Show statement went through the schema writer, Finalize and Run
C10_Witness ==
    /\ Returned /\ IsQuery(call) /\ call.job.Stmt = "SqlShow"
    /\ Len(call.log) = 5
    /\ call.log[2].call = "NewMySqlSchemaWriter"
    /\ call.log[3].call = "Finalize" /\ call.log[3].arg = "NewMySqlSchemaWriter"
    /\ call.log[4].call = "Run"

\* the six command bytes chooseCommand has a case for
KnownCommands ==
    {COM_QUERY, COM_STMT_PREPARE, COM_PING, COM_QUIT, COM_INIT_DB, COM_FIELD_LIST}

\* a step that is a whole Handle call: from the idle loop to its return
HandledAtOnce == call.pc = "idle" /\ call'.pc = "returned" /\ call'.op = "Handle"

\* C11: for a command byte outside query, prepare, ping, quit, init-db and
\* field-list, Handle returns a protocol error with the generic code
\* ER_UNKNOWN_ERROR whose message is formatted with the command's number,
\* calls no collaborator (nothing is written), and changes no handler field,
\* session variable or transport.
C11_UnknownCommand ==
    [][ (HandledAtOnce /\ Len(call'.req) > 0 /\ call'.req[1] \notin KnownCommands)
        => /\ call'.ret.kind = "mysqlerror"
           /\ call'.ret.code = ER_UNKNOWN_ERROR
           /\ call'.ret.text = "command %d:%s not yet supported"
           /\ call'.ret.cmd = call'.req[1]
           /\ call'.log = << >>
           /\ handlers' = handlers
           /\ sessVars' = sessVars
           /\ connClosed' = connClosed ]_vars

C11_Witness ==
    /\ Returned /\ IsCommand(call, COM_STMT_EXECUTE)
    /\ call.ret.code = ER_UNKNOWN_ERROR /\ call.ret.cmd = COM_STMT_EXECUTE
    /\ handlers[call.h].schema = SchemaOf(TxtDb)
    /\ handlers[call.h].conn = call.h

\* C12: a field-list command returns an error with the code
\* ER_WARN_DEPRECATED_SYNTAX for every payload and in every session state,
\* without entering the query pipeline, calling a collaborator or changing
\* any state.
C12_FieldListDeprecated ==
    /\ [](IsCommand(call, COM_FIELD_LIST) =>
             /\ Returned
             /\ call.ret.kind = "mysqlerror"
             /\ call.ret.code = ER_WARN_DEPRECATED_SYNTAX
             /\ call.log = << >>
             /\ call.ctx = NilCtx /\ call.job = NilJob)
    /\ [][ (call.pc = "idle" /\ IsCommand(call', COM_FIELD_LIST))
           => /\ handlers' = handlers
              /\ sessVars' = sessVars
              /\ connClosed' = connClosed ]_vars

C12_Witness ==
    /\ Returned /\ IsCommand(call, COM_FIELD_LIST)
    /\ SentText(call) = TxtSetUpper
    /\ handlers[call.h].schema # NilSchema
    /\ call.ret.code = ER_WARN_DEPRECATED_SYNTAX

\* the step is an init-db command or a SchemaUse call on handler h naming n
SelectsSchema(h, n) ==
    /\ call.pc = "idle" /\ call'.h = h
    /\ \/ IsCommand(call', COM_INIT_DB) /\ SentText(call') = n
       \/ call'.op = "SchemaUse" /\ call'.req = n

\* C13: the Query Context of a query carries the handler's current schema
\* and session object (with the SQL text and the recovery flag of the
\* config); a handler's schema changes only by an init-db or SchemaUse naming
\* a registered schema, which selects exactly that schema, so it is always
\* the one most recently selected with success; the session object stays the
\* one made at Open; and queries, pings, rejected commands and failed init-db
\* commands leave every handler field as it was.
C13_SessionStateAcrossCommands ==
    /\ [](IsQuery(call) /\ handlers[call.h].schema # NilSchema =>
             /\ call.ctx.Schema = handlers[call.h].schema
             /\ call.ctx.Session = handlers[call.h].sess
             /\ call.ctx.Raw = SentText(call)
             /\ call.ctx.DisableRecover = svr.Config.SupressRecover)
    /\ [][ \A h \in Conns :
             handlers[h].open =>
                /\ handlers'[h].sess = handlers[h].sess
                /\ \A n \in Payloads :
                      (SelectsSchema(h, n) /\ n \in svr.schemas)
                         => handlers'[h].schema = SchemaOf(n)
                /\ handlers'[h].schema # handlers[h].schema =>
                      \E n \in svr.schemas :
                         SelectsSchema(h, n) /\ handlers'[h].schema = SchemaOf(n)
                /\ handlers'[h] # handlers[h] =>
                      /\ call.pc = "idle" /\ call'.h = h
                      /\ \/ call'.op \in {"Close", "SchemaUse"}
                         \/ IsCommand(call', COM_QUIT)
                         \/ IsCommand(call', COM_INIT_DB) /\ SentText(call') \in svr.schemas ]_vars

\* a query planned under the second schema the connection selected, with a
\* session variable set by an earlier query
C13_Witness ==
    /\ call.pc = "Run" /\ IsQuery(call)
    /\ call.ctx.Schema = SchemaOf(TxtSetNoSpace)
    /\ handlers[call.h].schema = SchemaOf(TxtSetNoSpace)
    /\ call.ctx.Session = handlers[call.h].sess
    /\ sessVars[call.ctx.Session] = 1

\* C14: a per-query failure (protocol error, no schema in use, schema not
\* found, planning error, unsupported statement, Finalize error, Run error)
\* comes back from Handle as an error value, not as a fault; and a handler's
\* transport is released, and the transport closed, by nothing but a quit
\* command or a Close call, so after any such failure the connection is as
\* open as it was.
C14_FailuresLeaveConnectionOpen ==
    /\ [](( /\ Returned /\ call.op = "Handle" /\ Len(call.req) > 0
            /\ \A i \in 1..Len(call.log) : call.log[i].out # "panic" )
          => /\ call.ret.kind \in {"nil", "error", "mysqlerror"}
             /\ call.req[1] \notin KnownCommands => call.ret.kind = "mysqlerror"
             /\ IsCommand(call, COM_FIELD_LIST) => call.ret.kind = "mysqlerror"
             /\ (IsQuery(call) /\ handlers[call.h].schema = NilSchema) =>
                   call.ret.kind = "error"
             /\ (IsCommand(call, COM_INIT_DB) /\ SentText(call) \notin svr.schemas) =>
                   call.ret.kind = "error"
             /\ (Planned(call, "err") /\ ~StartsWithSetAnyCase(SentText(call))) =>
                   call.ret = PlanErr
             /\ (Planned(call, "job") /\ call.job.Stmt = "SqlCreate") =>
                   call.ret.kind = "error"
             /\ \A i \in CallsAt(call, "Finalize") :
                   call.log[i].out = "err" => call.ret = FinalizeErr
             /\ \A i \in CallsAt(call, "Run") :
                   call.log[i].out = "err" => call.ret = RunErr)
    /\ [][ \A h \in Conns :
             (handlers[h].open /\
                (handlers'[h].conn # handlers[h].conn \/ connClosed'[h] # connClosed[h]))
                => /\ call.pc = "idle" /\ call'.h = h
                   /\ call'.op = "Close" \/ IsCommand(call', COM_QUIT)
                   /\ handlers[h].conn = h ]_vars

\* Finalize failed on a bound connection: the error is returned, the
\* transport is still bound and has not been closed
C14_Witness ==
    /\ Returned /\ IsQuery(call)
    /\ call.ret = FinalizeErr
    /\ handlers[call.h].conn = call.h
    /\ connClosed[call.h] = 0

\* the names of the three writer constructors
WriterCtors == {"NewMySqlResultWriter", "NewMySqlSchemaWriter", "NewMySqlExecResultWriter"}

\* C16: within one query Finalize, Run and Close are each invoked at most
\* once and in that order: Finalize gets the one writer constructed just
\* before it, Run comes only right after a Finalize that returned success,
\* Close only right after a Run that returned; when Finalize returns an error
\* Run is never invoked and handleQuery returns Finalize's error.
C16_JobLifecycleOrder ==
    /\ NumCalls(call, "Finalize") <= 1
    /\ NumCalls(call, "Run") <= 1
    /\ NumCalls(call, "Close") <= 1
    /\ Cardinality({i \in 1..Len(call.log) : call.log[i].call \in WriterCtors}) <= 1
    /\ \A i \in CallsAt(call, "Finalize") :
          /\ i > 1
          /\ call.log[i - 1].call \in WriterCtors /\ call.log[i - 1].out = "ok"
          /\ call.log[i].arg = call.log[i - 1].call
          /\ call.log[i].out = "err" =>
                /\ Returned /\ Len(call.log) = i
                /\ call.ret = FinalizeErr
          /\ call.log[i].out = "ok" => (call.pc = "Run" <=> Len(call.log) = i)
    /\ \A i \in CallsAt(call, "Run") :
          i > 1 /\ call.log[i - 1].call = "Finalize" /\ call.log[i - 1].out = "ok"
    /\ \A i \in CallsAt(call, "Close") :
          i > 1 /\ call.log[i - 1].call = "Run" /\ call.log[i - 1].out \in {"ok", "err"}

\* Finalize returned an error: Run was not invoked, the error is returned
C16_Witness ==
    /\ Returned /\ IsQuery(call)
    /\ Len(call.log) = 3 /\ call.log[3].call = "Finalize" /\ call.log[3].out = "err"
    /\ call.ret = FinalizeErr
    /\ NumCalls(call, "Run") = 0

\* C17: when the planner returns a nil Job and no error, handleQuery returns
\* nil at once: no writer is constructed, none of Finalize, Run, Close is
\* invoked and the handler writes nothing to the transport.
C17_NilJobIsDone ==
    (IsQuery(call) /\ Planned(call, "nil")) =>
        /\ Returned
        /\ call.ret = NoErr
        /\ Len(call.log) = 1
        /\ call.job = NilJob
        /\ call.resultWriter = ""

C17_Witness ==
    /\ Returned /\ IsCommand(call, COM_QUERY) /\ Planned(call, "nil")
    /\ call.ret = NoErr /\ Len(call.log) = 1
    /\ handlers[call.h].conn = call.h

\* C18: with SupressRecover false, when Finalize or Run raises a fault, the
\* Job has been closed, by exactly one call of Job.Close, when handleQuery
\* returns the recovered error.
C18_FaultedJobIsClosed ==
    ( /\ Returned /\ IsQuery(call) /\ ~svr.Config.SupressRecover
      /\ \E i \in CallsAt(call, "Finalize") \cup CallsAt(call, "Run") :
            call.log[i].out = "panic" )
    => /\ call.ret.kind = "error"
       /\ NumCalls(call, "Close") = 1

\* C19: after a quit command or Close released the transport, a command that
\* replies through the handler never writes to the released (nil) transport,
\* and Handle returns a value instead of faulting.
C19_NoWriteAfterRelease ==
    ( /\ Returned /\ call.op = "Handle" /\ Len(call.req) > 0
      /\ handlers[call.h].conn = NilConn /\ ~IsCommand(call, COM_QUIT) )
    => /\ \A i \in CallsAt(call, "WriteOK") : call.log[i].arg # NilConn
       /\ (\A i \in 1..Len(call.log) :
              call.log[i].out = "panic" => call.log[i].call = "WriteOK")
          => call.ret.kind # "panic"

\* C20: Handle returns an error or nil for every request, the empty one
\* included, unless a collaborator faults: taking the command byte never
\* faults, and of a non-empty request exactly the first byte is removed, the
\* rest being the SQL text or the schema name used.
C20_HandleAlwaysReturns ==
    ( /\ Returned /\ call.op = "Handle"
      /\ \A i \in 1..Len(call.log) : call.log[i].out # "panic" )
    => /\ call.ret.kind \in {"nil", "error", "mysqlerror"}
       /\ (IsQuery(call) /\ Len(call.log) > 0) => call.ctx.Raw = SentText(call)
       /\ IsQuery(call) => call.sql \in {SentText(call), ToLower(SentText(call))}
       /\ (IsCommand(call, COM_INIT_DB) /\ call.ret.kind = "error" /\ call.log = << >>)
             => call.ret.str = SentText(call)
       /\ (IsCommand(call, COM_INIT_DB) /\ call.val # NilSchema)
             => call.val = SchemaOf(SentText(call))

\* C15: makeBindVars returns, for every argument list of length n, a map
\* with exactly the n keys "v1" .. "vn" (the letter v and the decimal number),
\* key "v"+i holding the i-th argument; the empty list gives the empty map,
\* and the argument list is left as given.
KeyV(i) == IF i < 10 THEN <<118, 48 + i>> ELSE <<118, 48 + (i \div 10), 48 + (i % 10)>>

C15_MakeBindVars ==
    bind.pc = "returned" =>
        LET n == Len(bind.given)
        IN  /\ DOMAIN bind.bindVars = {KeyV(i) : i \in 1..n}
            /\ Cardinality(DOMAIN bind.bindVars) = n
            /\ \A i \in 1..n : bind.bindVars[KeyV(i)] = bind.given[i]
            /\ n = 0 => bind.bindVars = EmptyMap
            /\ bind.args = bind.given

\* the list [10, 20, 20, ...] of ten arguments gave v1 = 10 and v10 = 20
C15_Witness ==
    /\ bind.pc = "returned"
    /\ Len(bind.given) = 10
    /\ bind.given[1] = 10 /\ bind.given[10] = 20
    /\ bind.bindVars[<<118, 49>>] = 10
    /\ bind.bindVars[<<118, 49, 48>>] = 20

====
